---------------------------- MODULE Spec2Model ----------------------------
(***************************************************************************)
(* A model of the binding generator of cef-rs                              *)
(* (update-bindings/src/parse_tree.rs): the name mapping, the construction *)
(* of the declaration IR from a parsed file, the base-type resolution and  *)
(* the emission of the wrapper file by generate_bindings.                  *)
(*                                                                         *)
(* Text is modelled as a sequence of one-character strings, so that the    *)
(* pattern matching and the case conversions are computed character by     *)
(* character.  Option<T> is a sequence of length at most one: None is <<>> *)
(* and Some(v) is <<v>>.                                                   *)
(***************************************************************************)
EXTENDS Naturals, Sequences, FiniteSets, TLC

VARIABLES
    input,      \* the bindings file handed to generate_bindings
    pc,         \* the position of generate_bindings
    item_ix,    \* ParseTree::try_from: the number of top-level items consumed
    tree,       \* the ParseTree under construction / being displayed
    section,    \* Display for ParseTree: the section being written
    struct_ix,  \* write_structs: the struct of tree.structs at hand (0: none yet)
    out,        \* the text written to the output file so far, as emitted pieces
    out_file,   \* whether this run has created bindings.rs
    fmt_status, \* what became of the rustfmt command
    result,     \* the value generate_bindings returned, once it has
    fname,      \* name mapping: the foreign name under conversion
    mapped      \* name mapping: the results, once computed

pipeline_vars == <<input, pc, item_ix, tree, section, struct_ix, out, out_file, fmt_status, result>>
vars == <<input, pc, item_ix, tree, section, struct_ix, out, out_file, fmt_status, result,
          fname, mapped>>

None == <<>>
Some(v) == <<v>>
IsSome(o) == o /= <<>>
Unwrap(o) == o[1]

---------------------------------------------------------------------------
(* Characters.                                                             *)

LowerChars == <<"a","b","c","d","e","f","g","h","i","j","k","l","m",
                "n","o","p","q","r","s","t","u","v","w","x","y","z">>
UpperChars == <<"A","B","C","D","E","F","G","H","I","J","K","L","M",
                "N","O","P","Q","R","S","T","U","V","W","X","Y","Z">>
DigitChars == {"0","1","2","3","4","5","6","7","8","9"}

Range(s) == {s[i] : i \in 1..Len(s)}
IsLower(c) == c \in Range(LowerChars)
IsUpper(c) == c \in Range(UpperChars)
IsDigit(c) == c \in DigitChars
\* \w of the regex crate, on the characters the model uses
IsWordChar(c) == IsLower(c) \/ IsUpper(c) \/ IsDigit(c) \/ c = "_"

IndexIn(s, c) == CHOOSE i \in 1..Len(s) : s[i] = c
ToUpper(c) == IF IsLower(c) THEN UpperChars[IndexIn(LowerChars, c)] ELSE c
ToLower(c) == IF IsUpper(c) THEN LowerChars[IndexIn(UpperChars, c)] ELSE c

StartsWith(s, p) == Len(s) >= Len(p) /\ SubSeq(s, 1, Len(p)) = p
EndsWith(s, p) == Len(s) >= Len(p) /\ SubSeq(s, Len(s) - Len(p) + 1, Len(s)) = p
Drop(s, n) == SubSeq(s, n + 1, Len(s))

RECURSIVE Concat(_)
Concat(ss) == IF ss = <<>> THEN <<>> ELSE Head(ss) \o Concat(Tail(ss))

RECURSIVE Join(_, _)
Join(ss, sep) ==
    IF ss = <<>> THEN <<>>
    ELSE IF Len(ss) = 1 THEN ss[1]
    ELSE ss[1] \o sep \o Join(Tail(ss), sep)

---------------------------------------------------------------------------
(* convert_case, as the two conversions of the source use it.              *)

\* Boundary::Underscore: the words between underscores, the empty ones dropped
RECURSIVE SplitSnake(_, _)
SplitSnake(s, word) ==
    IF s = <<>> THEN (IF word = <<>> THEN <<>> ELSE <<word>>)
    ELSE IF Head(s) = "_"
         THEN (IF word = <<>> THEN <<>> ELSE <<word>>) \o SplitSnake(Tail(s), <<>>)
         ELSE SplitSnake(Tail(s), Append(word, Head(s)))

\* the boundaries with one more: a word also starts after an underscore
CamelBoundary_after_underscore(s, i) ==
    /\ i > 1
    /\ \/ IsLower(s[i-1]) /\ IsUpper(s[i])
       \/ IsLower(s[i-1]) /\ IsDigit(s[i])
       \/ IsUpper(s[i-1]) /\ IsDigit(s[i])
       \/ IsDigit(s[i-1]) /\ IsLower(s[i])
       \/ IsDigit(s[i-1]) /\ IsUpper(s[i])
       \/ i < Len(s) /\ IsUpper(s[i-1]) /\ IsUpper(s[i]) /\ IsLower(s[i+1])
       \/ s[i-1] = "_" /\ IsLower(s[i])

\* the boundaries of Case::Camel: a new word starts at s[i]
CamelBoundary(s, i) ==
    /\ i > 1
    /\ \/ IsLower(s[i-1]) /\ IsUpper(s[i])                              \* LowerUpper
       \/ IsLower(s[i-1]) /\ IsDigit(s[i])                              \* LowerDigit
       \/ IsUpper(s[i-1]) /\ IsDigit(s[i])                              \* UpperDigit
       \/ IsDigit(s[i-1]) /\ IsLower(s[i])                              \* DigitLower
       \/ IsDigit(s[i-1]) /\ IsUpper(s[i])                              \* DigitUpper
       \/ i < Len(s) /\ IsUpper(s[i-1]) /\ IsUpper(s[i]) /\ IsLower(s[i+1]) \* Acronym

RECURSIVE SplitCamelFrom(_, _, _)
SplitCamelFrom(s, i, word) ==
    IF i > Len(s) THEN (IF word = <<>> THEN <<>> ELSE <<word>>)
    ELSE IF CamelBoundary(s, i)
         THEN (IF word = <<>> THEN <<>> ELSE <<word>>) \o SplitCamelFrom(s, i + 1, <<s[i]>>)
         ELSE SplitCamelFrom(s, i + 1, Append(word, s[i]))

SplitCamel(s) == SplitCamelFrom(s, 1, <<>>)

\* Pattern::Capital: first character upper case, the rest lower case
Capital(w) == [i \in 1..Len(w) |-> IF i = 1 THEN ToUpper(w[i]) ELSE ToLower(w[i])]
\* Pattern::Lowercase
Lowercase(w) == [i \in 1..Len(w) |-> ToLower(w[i])]

SnakeToUpperCamel(s) ==
    LET ws == SplitSnake(s, <<>>) IN Concat([i \in 1..Len(ws) |-> Capital(ws[i])])

CamelToSnake(s) ==
    LET ws == SplitCamel(s) IN Join([i \in 1..Len(ws) |-> Lowercase(ws[i])], <<"_">>)

---------------------------------------------------------------------------
(* The name mapping.                                                       *)

T_cef_ == <<"c","e","f","_">>
T__t == <<"_","t">>
T_String == <<"S","t","r","i","n","g">>
T_Cef == <<"C","e","f">>

\* the pattern without its optional leading underscore: ^cef_(\w+)_t$
TypeNameCapture_no_underscore(name) ==
    IF /\ StartsWith(name, T_cef_)
       /\ EndsWith(Drop(name, Len(T_cef_)), T__t)
       /\ Len(name) > Len(T_cef_) + Len(T__t)
       /\ \A i \in (Len(T_cef_) + 1)..(Len(name) - Len(T__t)) : IsWordChar(name[i])
    THEN Some(SubSeq(name, Len(T_cef_) + 1, Len(name) - Len(T__t)))
    ELSE None

\* captures.get(1) of ^_?cef_(\w+)_t$ : the captured segment, if the name matches
TypeNameCapture(name) ==
    LET s == IF StartsWith(name, <<"_">>) THEN Tail(name) ELSE name IN
    IF /\ StartsWith(s, T_cef_)
       /\ EndsWith(Drop(s, Len(T_cef_)), T__t)
       /\ Len(s) > Len(T_cef_) + Len(T__t)
       /\ \A i \in (Len(T_cef_) + 1)..(Len(s) - Len(T__t)) : IsWordChar(s[i])
    THEN Some(SubSeq(s, Len(T_cef_) + 1, Len(s) - Len(T__t)))
    ELSE None

\* the same function with the String collision left unhandled
make_rust_type_name_unprefixed(name) ==
    LET cap == TypeNameCapture(name) IN
    IF IsSome(cap) THEN Some(SnakeToUpperCamel(Unwrap(cap))) ELSE None

make_rust_type_name(name) ==
    LET cap == TypeNameCapture(name) IN
    IF IsSome(cap)
    THEN LET n == SnakeToUpperCamel(Unwrap(cap)) IN
         IF StartsWith(n, T_String) THEN Some(T_Cef \o n) ELSE Some(n)
    ELSE None

make_snake_case_value_name(name) == CamelToSnake(name)

---------------------------------------------------------------------------
(* The syntax tree handed over by syn, as far as the generator looks at    *)
(* it.  A type is a record tagged by k; an identifier is its text.         *)

\* syn::PathSegment with PathArguments::None / ::AngleBracketed(args)
Seg(ident) == [ident |-> ident, arguments |-> None]
SegArgs(ident, args) == [ident |-> ident, arguments |-> Some(args)]
\* syn::GenericArgument::Type
ArgType(ty) == [k |-> "Type", ty |-> ty]

\* syn::Type::Path with qself: None
TyPath(leading_colon, segments) ==
    [k |-> "Path", qself |-> FALSE, leading_colon |-> leading_colon, segments |-> segments]
TyIdent(ident) == TyPath(FALSE, <<Seg(ident)>>)
TyPtr(is_const, elem) == [k |-> "Ptr", const_token |-> is_const, elem |-> elem]
TyArray(elem, len) == [k |-> "Array", elem |-> elem, len |-> len]
TyTuple(elems) == [k |-> "Tuple", elems |-> elems]
TySlice(elem) == [k |-> "Slice", elem |-> elem]
\* abi: None, Some(None) for a bare `extern`, Some(Some(name)) for extern "name"
TyBareFn(unsafety, abi, inputs, variadic, output) ==
    [k |-> "BareFn", unsafety |-> unsafety, abi |-> abi, inputs |-> inputs,
     variadic |-> variadic, output |-> output]
\* syn::BareFnArg
FnArg(name, ty) == [name |-> name, ty |-> ty]

\* ToTokens::to_token_stream().to_string(): the tokens, separated by spaces
RECURSIVE TokenString(_)
TokenString(ty) ==
    CASE ty.k = "Path" ->
            LET seg(s) ==
                    IF IsSome(s.arguments)
                    THEN LET args == Unwrap(s.arguments) IN
                         s.ident \o <<" ","<"," ">>
                         \o Join([i \in 1..Len(args) |-> TokenString(args[i].ty)], <<" ",","," ">>)
                         \o <<" ",">">>
                    ELSE s.ident
            IN (IF ty.leading_colon THEN <<":",":"," ">> ELSE <<>>)
               \o Join([i \in 1..Len(ty.segments) |-> seg(ty.segments[i])], <<" ",":",":"," ">>)
      [] ty.k = "Ptr" ->
            (IF ty.const_token THEN <<"*"," ","c","o","n","s","t"," ">> ELSE <<"*"," ","m","u","t"," ">>) \o TokenString(ty.elem)
      [] ty.k = "Array" -> <<"[">> \o TokenString(ty.elem) \o <<" ",";"," ">> \o ty.len \o <<"]">>
      [] ty.k = "Slice" -> <<"[">> \o TokenString(ty.elem) \o <<"]">>
      [] ty.k = "Tuple" ->
            <<"(">> \o Join([i \in 1..Len(ty.elems) |-> TokenString(ty.elems[i])], <<" ",","," ">>) \o <<")">>
      [] ty.k = "BareFn" ->
            LET arg(a) == (IF IsSome(a.name) THEN Unwrap(a.name) \o <<" ",":"," ">> ELSE <<>>)
                          \o TokenString(a.ty)
            IN (IF ty.unsafety THEN <<"u","n","s","a","f","e"," ">> ELSE <<>>)
               \o (IF IsSome(ty.abi)
                   THEN <<"e","x","t","e","r","n"," ">> \o (IF IsSome(Unwrap(ty.abi))
                                        THEN <<"\"">> \o Unwrap(Unwrap(ty.abi)) \o <<"\""," ">>
                                        ELSE <<>>)
                   ELSE <<>>)
               \o <<"f","n"," ","(">>
               \o Join([i \in 1..Len(ty.inputs) |-> arg(ty.inputs[i])], <<" ",","," ">>)
               \o (IF ty.variadic THEN <<" ",","," ",".",".",".">> ELSE <<>>)
               \o <<")">>
               \o (IF IsSome(ty.output) THEN <<" ","-",">"," ">> \o TokenString(Unwrap(ty.output)) ELSE <<>>)

\* Type::Path { qself: None, path }
IsPlainPath(ty) == ty.k = "Path" /\ ~ty.qself

RECURSIVE type_to_string(_)
type_to_string(ty) ==
    CASE IsPlainPath(ty) ->
            LET name == TokenString(ty) IN
            IF IsSome(make_rust_type_name(name)) THEN Unwrap(make_rust_type_name(name)) ELSE name
      [] ty.k = "Tuple" ->
            <<"(">> \o Join([i \in 1..Len(ty.elems) |-> type_to_string(ty.elems[i])], <<","," ">>) \o <<")">>
      [] ty.k = "Array" -> <<"[">> \o type_to_string(ty.elem) \o <<";"," ">> \o ty.len \o <<"]">>
      [] ty.k = "Slice" -> <<"[">> \o type_to_string(ty.elem) \o <<"]">>
      [] ty.k = "Ptr" ->
            LET rust_name == IF IsPlainPath(ty.elem)
                             THEN make_rust_type_name(TokenString(ty.elem))
                             ELSE None
            IN IF IsSome(rust_name) THEN Unwrap(rust_name)
               ELSE IF ty.const_token THEN <<"*","c","o","n","s","t"," ">> \o type_to_string(ty.elem)
               ELSE <<"*","m","u","t"," ">> \o type_to_string(ty.elem)
      [] OTHER -> TokenString(ty)

---------------------------------------------------------------------------
(* The declaration IR and its construction from the syntax tree.           *)

\* syn::Field
Field(ident, ty) == [ident |-> ident, ty |-> ty]

\* the parameters of a function pointer that carry a name (filter_map)
RECURSIVE MethodArguments(_)
MethodArguments(inputs) ==
    IF inputs = <<>> THEN <<>>
    ELSE LET arg == Head(inputs) IN
         (IF IsSome(arg.name)
          THEN << [name |-> Unwrap(arg.name),
                   rust_name |-> make_snake_case_value_name(Unwrap(arg.name)),
                   ty |-> type_to_string(arg.ty),
                   cef_type |-> TokenString(arg.ty)] >>
          ELSE <<>>)
         \o MethodArguments(Tail(inputs))

\* TryFrom<&syn::Field> for MethodDeclaration: None stands for Err(Unrecognized::FieldType)
MethodDeclaration_try_from(value) ==
    IF ~IsSome(value.ident) THEN None
    ELSE IF ~IsPlainPath(value.ty) THEN None
    ELSE LET segments == value.ty.segments IN
    IF ~(/\ Len(segments) = 3
         /\ ~IsSome(segments[1].arguments)
         /\ ~IsSome(segments[2].arguments)
         /\ IsSome(segments[3].arguments)) THEN None
    ELSE LET args == Unwrap(segments[3].arguments) IN
    IF \/ segments[1].ident /= <<"s","t","d">>
       \/ segments[2].ident /= <<"o","p","t","i","o","n">>
       \/ segments[3].ident /= <<"O","p","t","i","o","n">>
       \/ Len(args) /= 1 THEN None
    ELSE IF ~(/\ args[1].k = "Type"
              /\ args[1].ty.k = "BareFn"
              /\ args[1].ty.unsafety
              /\ IsSome(args[1].ty.abi)
              /\ IsSome(Unwrap(args[1].ty.abi))
              /\ ~args[1].ty.variadic) THEN None
    ELSE LET f == args[1].ty IN
    IF Unwrap(Unwrap(f.abi)) /= <<"C">> THEN None
    ELSE Some([name |-> Unwrap(value.ident),
               original_name |-> None,
               args |-> MethodArguments(f.inputs),
               output |-> IF IsSome(f.output)
                          THEN Some(type_to_string(Unwrap(f.output))) ELSE None,
               original_output |-> IF IsSome(f.output)
                                   THEN Some(TokenString(Unwrap(f.output))) ELSE None])

\* TryFrom<&syn::Field> for FieldDeclaration
FieldDeclaration_try_from(value) ==
    IF ~IsSome(value.ident) THEN None
    ELSE Some([name |-> Unwrap(value.ident),
               rust_name |-> make_snake_case_value_name(Unwrap(value.ident)),
               ty |-> type_to_string(value.ty)])

\* the loop over fields.named of ParseTree::try_from
RECURSIVE ClassifyFields(_, _)
ClassifyFields(named, struct_decl) ==
    IF named = <<>> THEN struct_decl
    ELSE LET field == Head(named)
             m == MethodDeclaration_try_from(field)
             f == FieldDeclaration_try_from(field)
         IN ClassifyFields(Tail(named),
                IF IsSome(m)
                THEN [struct_decl EXCEPT !.methods = Append(@, Unwrap(m))]
                ELSE IF IsSome(f)
                THEN [struct_decl EXCEPT !.fields = Append(@, Unwrap(f))]
                ELSE struct_decl)

\* the items of the syntax tree
ItemType(ident, ty) == [kind |-> "Type", ident |-> ident, ty |-> ty]
ItemStruct(ident, style, fields) ==
    [kind |-> "Struct", ident |-> ident, style |-> style, fields |-> fields]
ItemEnum(ident) == [kind |-> "Enum", ident |-> ident]
ItemForeignMod(unsafety, abi_name, items) ==
    [kind |-> "ForeignMod", unsafety |-> unsafety, abi_name |-> abi_name, items |-> items]
ItemOther == [kind |-> "Other"]
\* syn::ForeignItem::Fn; an input is FnArg::Typed with a pattern that is an
\* identifier (pat_ident Some) or something else
ForeignFn(ident, inputs, output) ==
    [k |-> "Fn", ident |-> ident, inputs |-> inputs, output |-> output]
ForeignOther == [k |-> "Other"]
PatArg(pat_ident, ty) == [pat_ident |-> pat_ident, ty |-> ty]

\* the capture with the cef_ prefix left in it
GlobalNameCapture_keep_prefix(name) ==
    IF /\ StartsWith(name, T_cef_)
       /\ Len(name) > Len(T_cef_)
       /\ \A i \in (Len(T_cef_) + 1)..Len(name) : IsWordChar(name[i])
    THEN Some(name)
    ELSE None

\* captures.get(1) of ^cef_(\w+)$
GlobalNameCapture(name) ==
    IF /\ StartsWith(name, T_cef_)
       /\ Len(name) > Len(T_cef_)
       /\ \A i \in (Len(T_cef_) + 1)..Len(name) : IsWordChar(name[i])
    THEN Some(Drop(name, Len(T_cef_)))
    ELSE None

RECURSIVE GlobalArguments(_)
GlobalArguments(inputs) ==
    IF inputs = <<>> THEN <<>>
    ELSE LET arg == Head(inputs) IN
         (IF IsSome(arg.pat_ident)
          THEN << [name |-> Unwrap(arg.pat_ident),
                   rust_name |-> make_snake_case_value_name(Unwrap(arg.pat_ident)),
                   ty |-> type_to_string(arg.ty),
                   cef_type |-> TokenString(arg.ty)] >>
          ELSE <<>>)
         \o GlobalArguments(Tail(inputs))

GlobalDeclaration(item_fn) ==
    LET original_name == item_fn.ident
        name == GlobalNameCapture(original_name)
    IN [name |-> IF IsSome(name) THEN Unwrap(name) ELSE original_name,
        original_name |-> IF IsSome(name) THEN Some(original_name) ELSE None,
        args |-> GlobalArguments(item_fn.inputs),
        output |-> IF IsSome(item_fn.output)
                   THEN Some(type_to_string(Unwrap(item_fn.output))) ELSE None,
        original_output |-> IF IsSome(item_fn.output)
                            THEN Some(TokenString(Unwrap(item_fn.output))) ELSE None]

RECURSIVE ForeignGlobals(_)
ForeignGlobals(items) ==
    IF items = <<>> THEN <<>>
    ELSE (IF Head(items).k = "Fn" THEN <<GlobalDeclaration(Head(items))>> ELSE <<>>)
         \o ForeignGlobals(Tail(items))

\* BTreeMap::insert
MapInsert(m, key, value) ==
    [k \in DOMAIN m \cup {key} |-> IF k = key THEN value ELSE m[k]]

EmptyTree == [type_aliases |-> <<>>, enums |-> <<>>, structs |-> <<>>,
              base_types |-> <<>>, globals |-> <<>>]

\* one turn of the loop over value.items of ParseTree::try_from
ParseTree_try_from_item(t, item) ==
    CASE item.kind = "Type" ->
            [t EXCEPT !.type_aliases = MapInsert(@, item.ident, type_to_string(item.ty))]
      [] item.kind = "Struct" /\ item.style = "Named" ->
            [t EXCEPT !.structs = Append(@,
                ClassifyFields(item.fields,
                    [name |-> item.ident,
                     rust_name |-> make_rust_type_name(item.ident),
                     fields |-> <<>>,
                     methods |-> <<>>]))]
      [] item.kind = "Struct" /\ item.style = "Unnamed" /\ Len(item.fields) = 1 ->
            [t EXCEPT !.enums = Append(@, item.ident)]
      [] item.kind = "Enum" ->
            [t EXCEPT !.enums = Append(@, item.ident)]
      [] /\ item.kind = "ForeignMod"
         /\ item.unsafety
         /\ IsSome(item.abi_name)
         /\ Unwrap(item.abi_name) = <<"C">> ->
            [t EXCEPT !.globals = @ \o ForeignGlobals(item.items)]
      [] OTHER -> t

---------------------------------------------------------------------------
(* BaseTypes.                                                              *)

FieldNames(fields) == [i \in 1..Len(fields) |-> fields[i].name]

\* the structs BaseTypes::new keeps: the field names are exactly ["base"]
\* and the struct has a host name
IsBaseWrapper(s) == FieldNames(s.fields) = <<<<"b","a","s","e">>>> /\ IsSome(s.rust_name)

\* BaseTypes::new: collect() into a BTreeMap keeps the last pair of a key
BaseTypes_new(structs) ==
    LET ix == {i \in 1..Len(structs) : IsBaseWrapper(structs[i])}
        last(n) == CHOOSE i \in ix :
                      /\ Unwrap(structs[i].rust_name) = n
                      /\ \A j \in ix : Unwrap(structs[j].rust_name) = n => j <= i
    IN [n \in {Unwrap(structs[i].rust_name) : i \in ix} |-> structs[last(n)].fields[1].ty]

base(bt, name) == IF name \in DOMAIN bt THEN Some(bt[name]) ELSE None

\* root, following at most depth links
RECURSIVE root_within(_, _, _)
root_within(bt, name, depth) ==
    IF ~IsSome(base(bt, name)) THEN Some(name)
    ELSE IF depth = 0 THEN None
    ELSE root_within(bt, Unwrap(base(bt, name)), depth - 1)

\* a root that stops at the direct parent
root_direct_parent(bt, name) ==
    IF IsSome(base(bt, name)) THEN base(bt, name) ELSE Some(name)

\* BaseTypes::root.  The recursion returns Some(terminal name) when the chain
\* of base links from name ends.  A chain over n recorded names that takes
\* more than n links repeats a name: the recursion then never returns, which
\* is None here.
root(bt, name) == root_within(bt, name, Cardinality(DOMAIN bt))

---------------------------------------------------------------------------
(* Emission.  The output is the sequence of the pieces written so far; a   *)
(* piece carries its section (sec), what it is (kind) and the parts of its *)
(* text that depend on the declaration.  decl is the position of the       *)
(* struct in tree.structs.                                                 *)

\* Display for MethodDeclaration: "fn {name}({args}){output}"
Signature(method) ==
    [name |-> method.name,
     args |-> [i \in 1..Len(method.args) |->
                 IF method.args[i].name = <<"s","e","l","f","_">>
                 THEN <<"&","s","e","l","f">>
                 ELSE method.args[i].rust_name \o <<":"," ">> \o method.args[i].ty],
     output |-> method.output]

\* the loop left after its first turn: the direct parent only
base_structs_parent_only(t, base_rust_name, rt) ==
    IF ~IsSome(base_rust_name) \/ Unwrap(base_rust_name) = rt THEN <<>>
    ELSE LET found == {j \in 1..Len(t.structs) : t.structs[j].rust_name = base_rust_name} IN
         IF found = {} THEN <<>>
         ELSE << t.structs[CHOOSE j \in found : \A k \in found : j <= k] >>

\* the while let loop of write_structs: the structs of the ancestors of a
\* ref-counted struct, the direct parent first
RECURSIVE base_structs(_, _, _)
base_structs(t, base_rust_name, rt) ==
    IF ~IsSome(base_rust_name) \/ Unwrap(base_rust_name) = rt THEN <<>>
    ELSE LET found == {j \in 1..Len(t.structs) : t.structs[j].rust_name = base_rust_name} IN
         IF found = {} THEN <<>>
         ELSE LET next_base == t.structs[CHOOSE j \in found : \A k \in found : j <= k] IN
              <<next_base>>
              \o base_structs(t, base(t.base_types, Unwrap(next_base.rust_name)), rt)

Repeat(x, n) == [i \in 1..n |-> x]
Reverse(s) == [i \in 1..Len(s) |-> s[Len(s) + 1 - i]]

\* init_bases without the final rev()
init_bases_unreversed(bases) ==
    [i \in 1..Len(bases) |->
        [module |-> <<"i","m","p","l">> \o bases[i].name, object |-> Repeat(<<"b","a","s","e">>, i)]]

\* init_bases: "impl{name}::init_methods::<Self>(&mut object.{bases});", where
\* object is the sequence of field accesses applied to the record
init_bases(bases) ==
    Reverse([i \in 1..Len(bases) |->
        [module |-> <<"i","m","p","l">> \o bases[i].name, object |-> Repeat(<<"b","a","s","e">>, i)]])

\* the dispatch thunks of a ref-counted struct with one slot left out
thunks_drop_last(methods) ==
    [i \in 1..(IF Len(methods) = 0 THEN 0 ELSE Len(methods) - 1) |->
        [name |-> methods[i].name,
         args |-> [j \in 1..Len(methods[i].args) |->
                     methods[i].args[j].rust_name \o <<":"," ">> \o methods[i].args[j].cef_type],
         forward_args |-> [j \in 1..(IF Len(methods[i].args) = 0 THEN 0
                                     ELSE Len(methods[i].args) - 1) |->
                             methods[i].args[j + 1].rust_name \o <<".","i","n","t","o","(",")">>],
         output |-> methods[i].original_output,
         forward_output |-> IF IsSome(methods[i].original_output) THEN <<".","i","n","t","o","(",")">> ELSE <<>>]]

\* the dispatch thunks: one extern "C" fn per method
thunks(methods) ==
    [i \in 1..Len(methods) |->
        [name |-> methods[i].name,
         args |-> [j \in 1..Len(methods[i].args) |->
                     methods[i].args[j].rust_name \o <<":"," ">> \o methods[i].args[j].cef_type],
         forward_args |-> [j \in 1..(IF Len(methods[i].args) = 0 THEN 0
                                     ELSE Len(methods[i].args) - 1) |->
                             methods[i].args[j + 1].rust_name \o <<".","i","n","t","o","(",")">>],
         output |-> methods[i].original_output,
         forward_output |-> IF IsSome(methods[i].original_output) THEN <<".","i","n","t","o","(",")">> ELSE <<>>]]

\* the first branch of write_structs
ref_counted_wrapper(t, i, rt) ==
    LET s == t.structs[i]
        rust_name == Unwrap(s.rust_name)
        base_rust_name == base(t.base_types, rust_name)
    IN [sec |-> "structs", kind |-> "ref_counted", decl |-> i,
        name |-> s.name, rust_name |-> rust_name,
        wrapper_methods |-> [k \in 1..Len(s.methods) |-> Signature(s.methods[k])],
        base_trait |-> IF IsSome(base_rust_name)
                       THEN (IF Unwrap(base_rust_name) = rt
                             THEN <<":"," ","S","i","z","e","d">>
                             ELSE <<":"," ","I","m","p","l">> \o Unwrap(base_rust_name))
                       ELSE <<>>,
        trait_methods |-> [k \in 1..Len(s.methods) |->
                             [sig |-> Signature(s.methods[k]),
                              body |-> IF IsSome(s.methods[k].output)
                                       THEN <<" ","D","e","f","a","u","l","t",":",":","d","e","f","a","u","l","t","(",")"," ">> ELSE <<>>]],
        into_raw |-> init_bases(base_structs(t, base_rust_name, rt))
                     \o << [module |-> <<"i","m","p","l">> \o s.name, object |-> <<>>] >>,
        init_methods |-> [k \in 1..Len(s.methods) |->
                             [slot |-> s.methods[k].name, thunk |-> s.methods[k].name]],
        thunks |-> thunks(s.methods)]

\* the second branch of write_structs
opaque_wrapper(t, i) ==
    [sec |-> "structs", kind |-> "opaque", decl |-> i,
     name |-> t.structs[i].name, rust_name |-> Unwrap(t.structs[i].rust_name)]

\* the plain aggregate with the fields of into() taken in the opposite order
aggregate_wrapper_into_reversed(t, i) ==
    LET s == t.structs[i] IN
    [sec |-> "structs", kind |-> "aggregate", decl |-> i,
     name |-> s.name, rust_name |-> Unwrap(s.rust_name),
     fields |-> [k \in 1..Len(s.fields) |->
                    [rust_name |-> s.fields[k].rust_name, ty |-> s.fields[k].ty]],
     from_fields |-> [k \in 1..Len(s.fields) |->
                    [host |-> s.fields[k].rust_name, foreign |-> s.fields[k].name]],
     into_fields |-> Reverse([k \in 1..Len(s.fields) |->
                    [foreign |-> s.fields[k].name, host |-> s.fields[k].rust_name]])]

\* the last branch of write_structs
aggregate_wrapper(t, i) ==
    LET s == t.structs[i] IN
    [sec |-> "structs", kind |-> "aggregate", decl |-> i,
     name |-> s.name, rust_name |-> Unwrap(s.rust_name),
     fields |-> [k \in 1..Len(s.fields) |->
                    [rust_name |-> s.fields[k].rust_name, ty |-> s.fields[k].ty]],
     from_fields |-> [k \in 1..Len(s.fields) |->
                    [host |-> s.fields[k].rust_name, foreign |-> s.fields[k].name]],
     into_fields |-> [k \in 1..Len(s.fields) |->
                    [foreign |-> s.fields[k].name, host |-> s.fields[k].rust_name]]]

T_BaseRefCounted == <<"B","a","s","e","R","e","f","C","o","u","n","t","e","d">>

\* the body of the for loop of write_structs with the host-name test left out
write_struct_unnamed_too(t, i) ==
    LET s == t.structs[i]
        named == [s EXCEPT !.rust_name = IF IsSome(@) THEN @ ELSE Some(s.name)]
        tn == [t EXCEPT !.structs[i] = named]
        rt == Unwrap(root(t.base_types, Unwrap(named.rust_name)))
    IN IF rt = T_BaseRefCounted /\ rt /= Unwrap(named.rust_name)
       THEN <<ref_counted_wrapper(tn, i, rt)>>
       ELSE IF \/ s.methods /= <<>>
               \/ s.fields = <<>>
               \/ FieldNames(s.fields) = <<<<"_","u","n","u","s","e","d">>>>
       THEN <<opaque_wrapper(tn, i)>>
       ELSE <<aggregate_wrapper(tn, i)>>

\* the body of the for loop of write_structs for the struct at position i,
\* whose root is resolved: the pieces it writes
write_struct(t, i) ==
    LET s == t.structs[i] IN
    IF ~IsSome(s.rust_name) THEN <<>>
    ELSE LET rt == Unwrap(root(t.base_types, Unwrap(s.rust_name))) IN
         IF rt = T_BaseRefCounted /\ rt /= Unwrap(s.rust_name)
         THEN <<ref_counted_wrapper(t, i, rt)>>
         ELSE IF \/ s.methods /= <<>>
                 \/ s.fields = <<>>
                 \/ FieldNames(s.fields) = <<<<"_","u","n","u","s","e","d">>>>
         THEN <<opaque_wrapper(t, i)>>
         ELSE <<aggregate_wrapper(t, i)>>

\* whether the call of root in the loop body returns
root_returns(t, i) ==
    IF IsSome(t.structs[i].rust_name)
    THEN IsSome(root(t.base_types, Unwrap(t.structs[i].rust_name)))
    ELSE TRUE

write_prelude == << [sec |-> "prelude", kind |-> "header"] >>

\* the byte order of the characters of identifiers
AsciiOrder == <<"0","1","2","3","4","5","6","7","8","9">> \o UpperChars \o <<"_">> \o LowerChars
CharLess(a, b) == IndexIn(AsciiOrder, a) < IndexIn(AsciiOrder, b)
RECURSIVE StrLess(_, _)
StrLess(a, b) ==
    IF a = <<>> THEN b /= <<>>
    ELSE IF b = <<>> THEN FALSE
    ELSE IF Head(a) = Head(b) THEN StrLess(Tail(a), Tail(b))
    ELSE CharLess(Head(a), Head(b))

\* the keys of a BTreeMap in iteration order
RECURSIVE SortedKeys(_)
SortedKeys(S) ==
    IF S = {} THEN <<>>
    ELSE LET m == CHOOSE x \in S : \A y \in S \ {x} : StrLess(x, y) IN
         <<m>> \o SortedKeys(S \ {m})

RECURSIVE alias_lines(_, _)
alias_lines(t, keys) ==
    IF keys = <<>> THEN <<>>
    ELSE LET raw_name == Head(keys)
             raw_ty == t.type_aliases[raw_name]
             alias_name == IF IsSome(make_rust_type_name(raw_name))
                           THEN Unwrap(make_rust_type_name(raw_name)) ELSE raw_name
             alias_ty == IF IsSome(make_rust_type_name(raw_ty))
                         THEN Unwrap(make_rust_type_name(raw_ty)) ELSE raw_ty
         IN (IF alias_name /= alias_ty
             THEN << [sec |-> "aliases", kind |-> "alias", name |-> alias_name, ty |-> alias_ty] >>
             ELSE <<>>)
            \o alias_lines(t, Tail(keys))

write_aliases(t) ==
    << [sec |-> "aliases", kind |-> "header"] >>
    \o alias_lines(t, SortedKeys(DOMAIN t.type_aliases))

RECURSIVE enum_wrappers(_)
enum_wrappers(enums) ==
    IF enums = <<>> THEN <<>>
    ELSE (IF IsSome(make_rust_type_name(Head(enums)))
          THEN << [sec |-> "enums", kind |-> "enum", name |-> Head(enums),
                   rust_name |-> Unwrap(make_rust_type_name(Head(enums)))] >>
          ELSE <<>>)
         \o enum_wrappers(Tail(enums))

write_enums(t) == << [sec |-> "enums", kind |-> "header"] >> \o enum_wrappers(t.enums)

write_globals(t) ==
    << [sec |-> "globals", kind |-> "header"] >>
    \o [i \in 1..Len(t.globals) |->
          LET global_fn == t.globals[i] IN
          [sec |-> "globals", kind |-> "global",
           sig |-> Signature(global_fn),
           original_name |-> IF IsSome(global_fn.original_name)
                             THEN Unwrap(global_fn.original_name) ELSE global_fn.name,
           args |-> [j \in 1..Len(global_fn.args) |-> global_fn.args[j].rust_name \o <<".","i","n","t","o","(",")">>],
           output |-> IF IsSome(global_fn.output) THEN <<".","i","n","t","o","(",")">> ELSE <<>>]]

---------------------------------------------------------------------------
(* The bindings files the model feeds to generate_bindings.  A file is a   *)
(* sequence of items drawn from a catalogue of declarations of the shapes  *)
(* bindgen produces for the CEF headers.                                   *)

Ty_c_int == TyPath(TRUE, <<Seg(<<"s","t","d">>), Seg(<<"o","s">>), Seg(<<"r","a","w">>), Seg(<<"c","_","i","n","t">>)>>)
Ty_usize == TyIdent(<<"u","s","i","z","e">>)
Ty_u32 == TyIdent(<<"u","3","2">>)
Ty_OptionFn(f) ==
    TyPath(TRUE, <<Seg(<<"s","t","d">>), Seg(<<"o","p","t","i","o","n">>), SegArgs(<<"O","p","t","i","o","n">>, <<ArgType(f)>>)>>)
\* unsafe extern "C" fn(inputs) -> output
Ty_CFn(inputs, output) == TyBareFn(TRUE, Some(Some(<<"C">>)), inputs, FALSE, output)
Arg_self(struct_name) == FnArg(Some(<<"s","e","l","f","_">>), TyPtr(FALSE, TyIdent(struct_name)))
NamedField(ident, ty) == Field(Some(ident), ty)

S_base_ref_counted ==
    ItemStruct(<<"_","c","e","f","_","b","a","s","e","_","r","e","f","_","c","o","u","n","t","e","d","_","t">>, "Named",
        << NamedField(<<"s","i","z","e">>, Ty_usize),
           NamedField(<<"a","d","d","_","r","e","f">>,
               Ty_OptionFn(Ty_CFn(<<Arg_self(<<"_","c","e","f","_","b","a","s","e","_","r","e","f","_","c","o","u","n","t","e","d","_","t">>)>>, None))) >>)
S_a ==
    ItemStruct(<<"_","c","e","f","_","a","_","t">>, "Named",
        << NamedField(<<"b","a","s","e">>, TyIdent(<<"c","e","f","_","b","a","s","e","_","r","e","f","_","c","o","u","n","t","e","d","_","t">>)),
           NamedField(<<"o","n","_","a">>,
               Ty_OptionFn(Ty_CFn(<<Arg_self(<<"_","c","e","f","_","a","_","t">>), FnArg(Some(<<"a","r","g","V","a","l">>), Ty_c_int)>>,
                                  Some(Ty_c_int)))) >>)
S_b ==
    ItemStruct(<<"_","c","e","f","_","b","_","t">>, "Named",
        << NamedField(<<"b","a","s","e">>, TyIdent(<<"c","e","f","_","a","_","t">>)),
           NamedField(<<"o","n","_","b">>,
               Ty_OptionFn(Ty_CFn(<<Arg_self(<<"_","c","e","f","_","b","_","t">>), FnArg(None, Ty_c_int)>>, None))),
           NamedField(<<"g","e","t","_","b">>,
               Ty_OptionFn(Ty_CFn(<<Arg_self(<<"_","c","e","f","_","b","_","t">>)>>,
                                  Some(TyPtr(FALSE, TyIdent(<<"_","c","e","f","_","a","_","t">>)))))) >>)
S_c ==
    ItemStruct(<<"_","c","e","f","_","c","_","t">>, "Named", << NamedField(<<"b","a","s","e">>, TyIdent(<<"c","e","f","_","b","_","t">>)) >>)
S_d ==
    ItemStruct(<<"_","c","e","f","_","d","_","t">>, "Named",
        << NamedField(<<"b","a","s","e">>, TyPtr(FALSE, TyIdent(<<"_","c","e","f","_","d","_","t">>))) >>)
S_p ==
    ItemStruct(<<"_","c","e","f","_","p","_","t">>, "Named",
        << NamedField(<<"x">>, Ty_c_int), NamedField(<<"y","V","a","l">>, Ty_c_int) >>)
S_u ==
    ItemStruct(<<"_","c","e","f","_","u","_","t">>, "Named",
        << NamedField(<<"_","u","n","u","s","e","d">>, TyArray(TyIdent(<<"u","8">>), <<"0">>)) >>)
S_e == ItemStruct(<<"_","c","e","f","_","e","_","t">>, "Named", <<>>)
S_widget == ItemStruct(<<"w","i","d","g","e","t">>, "Named", << NamedField(<<"x">>, Ty_c_int) >>)
S_m ==
    ItemStruct(<<"_","c","e","f","_","m","_","t">>, "Named",
        << NamedField(<<"c","b">>,
               Ty_OptionFn(TyBareFn(FALSE, Some(Some(<<"C">>)), <<>>, FALSE, None))),
           NamedField(<<"o","n","_","m">>,
               Ty_OptionFn(Ty_CFn(<<FnArg(Some(<<"x">>), Ty_c_int), Arg_self(<<"_","c","e","f","_","m","_","t">>)>>,
                                  None))) >>)

I_alias_a == ItemType(<<"c","e","f","_","a","_","t">>, TyIdent(<<"_","c","e","f","_","a","_","t">>))
I_alias_color == ItemType(<<"c","e","f","_","c","o","l","o","r","_","t">>, Ty_u32)
I_enum_state == ItemEnum(<<"c","e","f","_","s","t","a","t","e","_","t">>)
I_enum_plain == ItemEnum(<<"p","l","a","i","n","_","e","n","u","m">>)
I_tuple_x == ItemStruct(<<"c","e","f","_","x","_","t">>, "Unnamed", << Field(None, Ty_u32) >>)
I_unit == ItemStruct(<<"c","e","f","_","u","n","i","t","_","t">>, "Unit", <<>>)
I_extern_c ==
    ItemForeignMod(TRUE, Some(<<"C">>),
        << ForeignFn(<<"c","e","f","_","d","o","_","i","t">>, <<PatArg(Some(<<"a","r","g","V","a","l">>), Ty_c_int)>>, Some(Ty_c_int)),
           ForeignOther,
           ForeignFn(<<"o","t","h","e","r","_","f","n">>, <<PatArg(None, Ty_c_int)>>, None) >>)
I_extern_safe ==
    ItemForeignMod(FALSE, Some(<<"C">>), << ForeignFn(<<"c","e","f","_","i","g","n","o","r","e","d">>, <<>>, None) >>)
I_other == ItemOther

\* the catalogue: the struct declarations first
ItemPool == << S_base_ref_counted, S_a, S_b, S_c, S_d, S_p, S_u, S_e, S_widget, S_m,
               I_alias_a, I_alias_color, I_enum_state, I_enum_plain, I_tuple_x, I_unit,
               I_extern_c, I_extern_safe, I_other >>

MaxStructs == 3
MaxItems == 2

StructItems == 1..10
MixedItems == {2, 6, 9} \cup (11..Len(ItemPool))

RECURSIVE SeqsUpTo(_, _)
SeqsUpTo(S, n) ==
    IF n = 0 THEN { <<>> }
    ELSE LET P == SeqsUpTo(S, n - 1) IN P \cup { Append(p, x) : p \in P, x \in S }

\* a file that cannot be read, a file that is not Rust syntax, and the files
\* made of items of the catalogue (by their positions in it)
NoInput == [readable |-> FALSE, syntax_ok |-> FALSE, items |-> <<>>]
Inputs ==
    { NoInput, [readable |-> TRUE, syntax_ok |-> FALSE, items |-> <<>>] }
    \cup { [readable |-> TRUE, syntax_ok |-> TRUE, items |-> s] :
             s \in SeqsUpTo(StructItems, MaxStructs) \cup SeqsUpTo(MixedItems, MaxItems) }

\* the items of the syntax tree of the file
Items == [i \in 1..Len(input.items) |-> ItemPool[input.items[i]]]

---------------------------------------------------------------------------
(* generate_bindings.                                                      *)

Ok == Some([ok |-> TRUE])
Err(e) == Some([ok |-> FALSE, err |-> e])

\* the order with the output file created before the input is parsed
generate_bindings_create_first ==
    <<"read", "create", "parse", "try_from", "write", "format", "done">>

\* the order of the statements of generate_bindings
generate_bindings_order ==
    <<"read", "parse", "try_from", "create", "write", "format", "done">>

StepAfter(p) == generate_bindings_order[IndexIn(generate_bindings_order, p) + 1]

\* the order with the enums written before the structs
fmt_order_enums_first == <<"prelude", "aliases", "enums", "structs", "globals">>

\* the order of the calls of Display::fmt for ParseTree
fmt_order == <<"prelude", "aliases", "structs", "enums", "globals">>

\* after a section of the display: the next one, or the end of write!
AfterSection(sec) ==
    LET i == IndexIn(fmt_order, sec) IN
    IF i < Len(fmt_order)
    THEN /\ section' = fmt_order[i + 1]
         /\ pc' = pc
    ELSE /\ section' = "end"
         /\ pc' = StepAfter("write")

PipelineIdle ==
    /\ input = NoInput
    /\ pc = "idle"
    /\ item_ix = 0
    /\ tree = EmptyTree
    /\ section = "none"
    /\ struct_ix = 0
    /\ out = <<>>
    /\ out_file = FALSE
    /\ fmt_status = "not_run"
    /\ result = None

Init ==
    /\ input \in Inputs
    /\ pc = "read"
    /\ item_ix = 0
    /\ tree = EmptyTree
    /\ section = "none"
    /\ struct_ix = 0
    /\ out = <<>>
    /\ out_file = FALSE
    /\ fmt_status = "not_run"
    /\ result = None
    /\ fname = <<>>
    /\ mapped = None

\* crate::read_bindings(source_path)?
ReadBindings ==
    /\ pc = "read"
    /\ IF input.readable
       THEN pc' = StepAfter("read") /\ result' = result
       ELSE pc' = "done" /\ result' = Err("Io")
    /\ UNCHANGED <<input, item_ix, tree, section, struct_ix, out, out_file, fmt_status,
                   fname, mapped>>

\* syn::parse_file(&bindings)?
ParseFile ==
    /\ pc = "parse"
    /\ IF input.syntax_ok
       THEN pc' = StepAfter("parse") /\ result' = result
       ELSE pc' = "done" /\ result' = Err("Parse")
    /\ UNCHANGED <<input, item_ix, tree, section, struct_ix, out, out_file, fmt_status,
                   fname, mapped>>

\* ParseTree::try_from: one item of value.items
TryFromItem ==
    /\ pc = "try_from"
    /\ item_ix < Len(Items)
    /\ tree' = ParseTree_try_from_item(tree, Items[item_ix + 1])
    /\ item_ix' = item_ix + 1
    /\ UNCHANGED <<input, pc, section, struct_ix, out, out_file, fmt_status, result,
                   fname, mapped>>

\* ParseTree::try_from: after the loop, the base types; Ok(tree)
TryFromFinish ==
    /\ pc = "try_from"
    /\ item_ix = Len(Items)
    /\ tree' = [tree EXCEPT !.base_types = BaseTypes_new(tree.structs)]
    /\ pc' = StepAfter("try_from")
    /\ UNCHANGED <<input, item_ix, section, struct_ix, out, out_file, fmt_status, result,
                   fname, mapped>>

\* fs::File::create(&out_file)?
CreateFile ==
    /\ pc = "create"
    /\ \E created \in BOOLEAN :
          IF created
          THEN /\ out_file' = TRUE
               /\ out' = <<>>
               /\ pc' = StepAfter("create")
               /\ result' = result
          ELSE /\ pc' = "done"
               /\ result' = Err("Io")
               /\ UNCHANGED <<out_file, out>>
    /\ UNCHANGED <<input, item_ix, tree, section, struct_ix, fmt_status, fname, mapped>>

\* write!(bindings, "{}", parse_tree)?: Display::fmt starts
WriteBegin ==
    /\ pc = "write"
    /\ section = "none"
    /\ section' = fmt_order[1]
    /\ UNCHANGED <<input, pc, item_ix, tree, struct_ix, out, out_file, fmt_status, result,
                   fname, mapped>>

WritePrelude ==
    /\ pc = "write"
    /\ section = "prelude"
    /\ out' = out \o write_prelude
    /\ AfterSection("prelude")
    /\ UNCHANGED <<input, item_ix, tree, struct_ix, out_file, fmt_status, result, fname, mapped>>

WriteAliases ==
    /\ pc = "write"
    /\ section = "aliases"
    /\ out' = out \o write_aliases(tree)
    /\ AfterSection("aliases")
    /\ UNCHANGED <<input, item_ix, tree, struct_ix, out_file, fmt_status, result, fname, mapped>>

\* write_structs: the header line
WriteStructsBegin ==
    /\ pc = "write"
    /\ section = "structs"
    /\ struct_ix = 0
    /\ out' = Append(out, [sec |-> "structs", kind |-> "header"])
    /\ struct_ix' = 1
    /\ UNCHANGED <<input, pc, item_ix, tree, section, out_file, fmt_status, result,
                   fname, mapped>>

\* write_structs: the loop body for one struct
WriteStruct ==
    /\ pc = "write"
    /\ section = "structs"
    /\ struct_ix \in 1..Len(tree.structs)
    /\ root_returns(tree, struct_ix)
    /\ out' = out \o write_struct(tree, struct_ix)
    /\ struct_ix' = struct_ix + 1
    /\ UNCHANGED <<input, pc, item_ix, tree, section, out_file, fmt_status, result,
                   fname, mapped>>

\* write_structs: the call of root for the struct at hand never returns
WriteStructDiverges ==
    /\ pc = "write"
    /\ section = "structs"
    /\ struct_ix \in 1..Len(tree.structs)
    /\ ~root_returns(tree, struct_ix)
    /\ pc' = "diverged"
    /\ UNCHANGED <<input, item_ix, tree, section, struct_ix, out, out_file, fmt_status,
                   result, fname, mapped>>

\* write_structs: Ok(()) after the loop
WriteStructsEnd ==
    /\ pc = "write"
    /\ section = "structs"
    /\ struct_ix = Len(tree.structs) + 1
    /\ AfterSection("structs")
    /\ UNCHANGED <<input, item_ix, tree, struct_ix, out, out_file, fmt_status, result,
                   fname, mapped>>

WriteEnums ==
    /\ pc = "write"
    /\ section = "enums"
    /\ out' = out \o write_enums(tree)
    /\ AfterSection("enums")
    /\ UNCHANGED <<input, item_ix, tree, struct_ix, out_file, fmt_status, result, fname, mapped>>

WriteGlobals ==
    /\ pc = "write"
    /\ section = "globals"
    /\ out' = out \o write_globals(tree)
    /\ AfterSection("globals")
    /\ UNCHANGED <<input, item_ix, tree, struct_ix, out_file, fmt_status, result, fname, mapped>>

\* a write to the file fails: the ? of write! returns the error
WriteFails ==
    /\ pc = "write"
    /\ section \in Range(fmt_order)
    /\ pc' = "done"
    /\ result' = Err("Io")
    /\ UNCHANGED <<input, item_ix, tree, section, struct_ix, out, out_file, fmt_status,
                   fname, mapped>>

\* format_bindings(&out_file)?: cmd.output()? fails when rustfmt cannot be
\* run; the exit status of a rustfmt that ran is not looked at
FormatBindings ==
    /\ pc = "format"
    /\ \E outcome \in {"spawn_failed", "exit_failure", "exit_success"} :
          /\ fmt_status' = outcome
          /\ result' = IF outcome = "spawn_failed" THEN Err("Io") ELSE Ok
    /\ pc' = "done"
    /\ UNCHANGED <<input, item_ix, tree, section, struct_ix, out, out_file, fname, mapped>>

Next ==
    \/ ReadBindings
    \/ ParseFile
    \/ TryFromItem
    \/ TryFromFinish
    \/ CreateFile
    \/ WriteBegin
    \/ WritePrelude
    \/ WriteAliases
    \/ WriteStructsBegin
    \/ WriteStruct
    \/ WriteStructDiverges
    \/ WriteStructsEnd
    \/ WriteEnums
    \/ WriteGlobals
    \/ WriteFails
    \/ FormatBindings

Spec == Init /\ [][Next]_vars

---------------------------------------------------------------------------
(* The name mapping as a system of its own: a foreign name is drawn from   *)
(* a bounded set and the mapping functions are applied to it.              *)

MaxTokens == 4

NameTokens == { <<"_">>, T_cef_, T__t, <<"s","t","r","i","n","g">>,
                <<"f","o","o">>, <<"B","a","r">>, <<":">> }

N_cef_foo_bar_t == <<"_","c","e","f","_","f","o","o","_","b","a","r","_","t">>
N_cef_widget_t == <<"c","e","f","_","w","i","d","g","e","t","_","t">>
N_not_a_match == <<"n","o","t","_","a","_","m","a","t","c","h">>
N_cef_string_t == <<"c","e","f","_","s","t","r","i","n","g","_","t">>

ExampleNames == { N_cef_foo_bar_t, N_cef_widget_t, N_not_a_match, N_cef_string_t }

RECURSIVE NamesUpTo(_)
NamesUpTo(n) ==
    IF n = 0 THEN { <<>> }
    ELSE LET P == NamesUpTo(n - 1) IN P \cup { p \o t : p \in P, t \in NameTokens }

ForeignNames == NamesUpTo(MaxTokens) \cup ExampleNames

InitNames ==
    /\ PipelineIdle
    /\ fname \in ForeignNames
    /\ mapped = None

\* the caller's use of make_rust_type_name and make_snake_case_value_name
MapName ==
    /\ mapped = None
    /\ mapped' = Some([ty |-> make_rust_type_name(fname),
                       val |-> make_snake_case_value_name(fname)])
    /\ UNCHANGED <<pipeline_vars, fname>>

NextNames == MapName

SpecNames == InitNames /\ [][NextNames]_vars

---------------------------------------------------------------------------
(* BaseTypes::root as a system of its own: a base mapping over a few host  *)
(* names, acyclic or not, and a name to resolve.                           *)

MaxRootNames == 3

RootNamePool == << <<"A">>, <<"B">>, <<"C">>, T_BaseRefCounted, <<"D">> >>
RootNames == { RootNamePool[i] : i \in 1..MaxRootNames }

\* the mappings from some of the names to names
BaseMaps == UNION { [K -> RootNames] : K \in SUBSET RootNames }

InitRoot ==
    /\ input = NoInput
    /\ pc = "idle"
    /\ item_ix = 0
    /\ \E bt \in BaseMaps : tree = [EmptyTree EXCEPT !.base_types = bt]
    /\ section = "none"
    /\ struct_ix = 0
    /\ out = <<>>
    /\ out_file = FALSE
    /\ fmt_status = "not_run"
    /\ result = None
    /\ fname \in RootNames
    /\ mapped = None

\* self.base_types.root(name)
ResolveRoot ==
    /\ mapped = None
    /\ mapped' = Some([root |-> root(tree.base_types, fname)])
    /\ UNCHANGED <<pipeline_vars, fname>>

NextRoot == ResolveRoot

SpecRoot == InitRoot /\ [][NextRoot]_vars

---------------------------------------------------------------------------
(* The wrappers of the global functions as a system of its own: a file     *)
(* with one unsafe extern "C" block that declares one function, whose name *)
(* is drawn from a bounded set of identifiers.                             *)

N_cef_do_something == <<"c","e","f","_","d","o","_","s","o","m","e","t","h","i","n","g">>
N_other_fn == <<"o","t","h","e","r","_","f","n">>

\* the names of the bounded set that are identifiers
GlobalFnNames ==
    { n \in ForeignNames : n /= <<>> /\ \A i \in 1..Len(n) : IsWordChar(n[i]) }
    \cup { N_cef_do_something, N_other_fn }

\* unsafe extern "C" { pub fn <name>(argVal: c_int) -> c_int; }
ExternBlockOf(name) ==
    ItemForeignMod(TRUE, Some(<<"C">>),
        << ForeignFn(name, <<PatArg(Some(<<"a","r","g","V","a","l">>), Ty_c_int)>>, Some(Ty_c_int)) >>)

InitGlobals ==
    /\ PipelineIdle
    /\ fname \in GlobalFnNames
    /\ mapped = None

\* ParseTree::try_from over the file
GlobalTryFrom ==
    /\ mapped = None
    /\ tree' = ParseTree_try_from_item(tree, ExternBlockOf(fname))
    /\ mapped' = Some("tree")
    /\ UNCHANGED <<input, pc, item_ix, section, struct_ix, out, out_file, fmt_status,
                   result, fname>>

\* ParseTree::write_globals
GlobalWrite ==
    /\ mapped = Some("tree")
    /\ out' = write_globals(tree)
    /\ mapped' = Some("written")
    /\ UNCHANGED <<input, pc, item_ix, tree, section, struct_ix, out_file, fmt_status,
                   result, fname>>

NextGlobals == GlobalTryFrom \/ GlobalWrite

SpecGlobals == InitGlobals /\ [][NextGlobals]_vars

---------------------------------------------------------------------------
(* The name mapping applied again to its own results.                      *)

MaxValueLen == 5
MaxApplications == 2

ValueNameChars == { "a", "B", "C", "1", "_" }

RECURSIVE CharsUpTo(_)
CharsUpTo(n) ==
    IF n = 0 THEN { <<>> }
    ELSE LET P == CharsUpTo(n - 1) IN P \cup { Append(p, c) : p \in P, c \in ValueNameChars }

N_argVal == <<"a","r","g","V","a","l">>
N_cef_fooBar_t == <<"c","e","f","_","f","o","o","B","a","r","_","t">>

RemappedNames == ForeignNames \cup CharsUpTo(MaxValueLen) \cup { N_argVal }

\* make_rust_type_name(&name).unwrap_or(name)
rust_name_or_raw(name) ==
    LET rust_name == make_rust_type_name(name) IN
    IF IsSome(rust_name) THEN Unwrap(rust_name) ELSE name

InitRemap ==
    /\ PipelineIdle
    /\ fname \in RemappedNames
    /\ mapped = <<>>

\* both mappings applied to the foreign name, or to their last results
RemapName ==
    /\ Len(mapped) < MaxApplications
    /\ LET last == IF mapped = <<>> THEN [ty |-> fname, val |-> fname]
                   ELSE mapped[Len(mapped)]
       IN mapped' = Append(mapped, [ty |-> rust_name_or_raw(last.ty),
                                    val |-> make_snake_case_value_name(last.val)])
    /\ UNCHANGED <<pipeline_vars, fname>>

NextRemap == RemapName

SpecRemap == InitRemap /\ [][NextRemap]_vars

---------------------------------------------------------------------------
(* The wrapper of one ref-counted struct as a system of its own: a file    *)
(* with one struct that has the field base of the marker type and one      *)
(* virtual-method slot, whose parameter list is drawn from a bounded set.  *)

MaxParams == 3

P_self == Arg_self(<<"_","c","e","f","_","f","_","t">>)
P_x == FnArg(Some(<<"x">>), Ty_c_int)
P_yVal == FnArg(Some(<<"y","V","a","l">>), Ty_c_int)
P_unnamed == FnArg(None, Ty_c_int)

SlotParams == { P_self, P_x, P_yVal, P_unnamed }

\* pub struct _cef_f_t { pub base: cef_base_ref_counted_t,
\*     pub on_f: Option<unsafe extern "C" fn(<inputs>) -> c_int> }
SlotStruct(inputs) ==
    ItemStruct(<<"_","c","e","f","_","f","_","t">>, "Named",
        << NamedField(<<"b","a","s","e">>, TyIdent(<<"c","e","f","_","b","a","s","e","_","r","e","f","_","c","o","u","n","t","e","d","_","t">>)),
           NamedField(<<"o","n","_","f">>, Ty_OptionFn(Ty_CFn(inputs, Some(Ty_c_int)))) >>)

InitThunks ==
    /\ \E inputs \in SeqsUpTo(SlotParams, MaxParams) :
          input = [readable |-> TRUE, syntax_ok |-> TRUE, items |-> <<>>,
                   slot_inputs |-> inputs]
    /\ pc = "idle"
    /\ item_ix = 0
    /\ tree = EmptyTree
    /\ section = "none"
    /\ struct_ix = 0
    /\ out = <<>>
    /\ out_file = FALSE
    /\ fmt_status = "not_run"
    /\ result = None
    /\ fname = <<>>
    /\ mapped = None

\* ParseTree::try_from over the file
ThunkTryFrom ==
    /\ mapped = None
    /\ LET t == ParseTree_try_from_item(tree, SlotStruct(input.slot_inputs))
       IN tree' = [t EXCEPT !.base_types = BaseTypes_new(t.structs)]
    /\ mapped' = Some("tree")
    /\ UNCHANGED <<input, pc, item_ix, section, struct_ix, out, out_file, fmt_status,
                   result, fname>>

\* write_structs: the pass of the for loop for the struct
ThunkWrite ==
    /\ mapped = Some("tree")
    /\ out' = write_struct(tree, 1)
    /\ mapped' = Some("written")
    /\ UNCHANGED <<input, pc, item_ix, tree, section, struct_ix, out_file, fmt_status,
                   result, fname>>

NextThunks == ThunkTryFrom \/ ThunkWrite

SpecThunks == InitThunks /\ [][NextThunks]_vars

---------------------------------------------------------------------------
(* Claims about the name mapping (checked under SpecNames).                *)

\* what the claims call the upper-camel conversion of a snake-case segment,
\* stated character by character: underscores vanish, a character that
\* starts the segment or follows an underscore is upper case, any other
\* character is lower case
UpperCamelOf(seg) ==
    LET F[i \in 0..Len(seg)] ==
            IF i = 0 THEN <<>>
            ELSE IF seg[i] = "_" THEN F[i-1]
            ELSE Append(F[i-1], IF i = 1 \/ seg[i-1] = "_"
                                THEN ToUpper(seg[i]) ELSE ToLower(seg[i]))
    IN F[Len(seg)]

\* the segments seg for which name is [_] cef_ seg _t, seg one or more word characters
MatchingSegments(name) ==
    { seg \in { SubSeq(name, i, j) : i \in 1..Len(name), j \in 1..Len(name) } :
        /\ Len(seg) >= 1
        /\ \A k \in 1..Len(seg) : IsWordChar(seg[k])
        /\ \E u \in { <<>>, <<"_">> } : name = u \o T_cef_ \o seg \o T__t }

MappedType == Unwrap(mapped).ty

\* C9 as stated: a host name is returned exactly for the names that match
\* [_] cef_ <segment> _t, and it is the upper-camel conversion of the segment
C9_AsStated ==
    mapped /= None =>
        /\ IsSome(MappedType) <=> MatchingSegments(fname) /= {}
        /\ \A seg \in MatchingSegments(fname) : MappedType = Some(UpperCamelOf(seg))

\* C9, amended: a host name is returned exactly for the names that match
\* [_] cef_ <segment> _t; it is the upper-camel conversion of the segment,
\* with Cef put in front when that conversion begins with String
C9_PatternContract ==
    mapped /= None =>
        /\ IsSome(MappedType) <=> MatchingSegments(fname) /= {}
        /\ \A seg \in MatchingSegments(fname) :
              MappedType = Some(IF StartsWith(UpperCamelOf(seg), T_String)
                                THEN T_Cef \o UpperCamelOf(seg)
                                ELSE UpperCamelOf(seg))
        /\ fname = N_cef_foo_bar_t => MappedType = Some(<<"F","o","o","B","a","r">>)
        /\ fname = N_cef_widget_t => MappedType = Some(<<"W","i","d","g","e","t">>)
        /\ fname = N_not_a_match => MappedType = None

C9_Witness ==
    /\ mapped /= None
    /\ fname = N_cef_foo_bar_t
    /\ MappedType = Some(<<"F","o","o","B","a","r">>)

\* C10: no returned host name begins with String; a result is the conversion
\* with Cef in front exactly when the conversion begins with String, and is
\* the bare conversion otherwise
C10_StringCollision ==
    mapped /= None =>
        /\ IsSome(MappedType) => ~StartsWith(Unwrap(MappedType), T_String)
        /\ \A seg \in MatchingSegments(fname) :
              LET conv == UpperCamelOf(seg) IN
              /\ StartsWith(conv, T_String) => MappedType = Some(T_Cef \o conv)
              /\ ~StartsWith(conv, T_String) => MappedType = Some(conv)

C10_Witness ==
    /\ mapped /= None
    /\ fname = N_cef_string_t
    /\ MappedType = Some(<<"C","e","f","S","t","r","i","n","g">>)

---------------------------------------------------------------------------
(* Claims about the base resolution (checked under SpecRoot).              *)

\* the names reached from the names of S by following base links
RECURSIVE ReachFrom(_, _)
ReachFrom(bt, S) ==
    LET N == S \cup { bt[x] : x \in S \cap DOMAIN bt } IN
    IF N = S THEN S ELSE ReachFrom(bt, N)

\* no name is its own ancestor
Acyclic(bt) == \A n \in DOMAIN bt : n \notin ReachFrom(bt, {bt[n]})

ResolvedRoot == Unwrap(mapped).root

\* C4: over an acyclic base mapping root(name) is the name without a recorded
\* parent that the base links lead to from name; a name and its recorded
\* parent have the same root, and a name without a recorded parent is its
\* own root
C4_RootIsTerminal ==
    (mapped /= None /\ Acyclic(tree.base_types)) =>
        LET bt == tree.base_types IN
        /\ IsSome(ResolvedRoot)
        /\ Unwrap(ResolvedRoot) \in ReachFrom(bt, {fname})
        /\ Unwrap(ResolvedRoot) \notin DOMAIN bt
        /\ fname \notin DOMAIN bt => ResolvedRoot = Some(fname)
        /\ fname \in DOMAIN bt => ResolvedRoot = root(bt, bt[fname])
        /\ \A n \in DOMAIN bt : root(bt, n) = root(bt, bt[n])

\* C.base = B, B.base = A: root(C) has been computed and is A
C4_Witness ==
    /\ mapped /= None
    /\ DOMAIN tree.base_types = { <<"B">>, <<"C">> }
    /\ tree.base_types[<<"C">>] = <<"B">>
    /\ tree.base_types[<<"B">>] = <<"A">>
    /\ fname = <<"C">>
    /\ ResolvedRoot = Some(<<"A">>)

---------------------------------------------------------------------------
(* Claims about generate_bindings (checked under Spec).                    *)

\* the struct declarations with named fields of the input, in file order
RECURSIVE NamedStructs(_)
NamedStructs(items) ==
    IF items = <<>> THEN <<>>
    ELSE (IF Head(items).kind = "Struct" /\ Head(items).style = "Named"
          THEN <<Head(items)>> ELSE <<>>)
         \o NamedStructs(Tail(items))

\* ParseTree::try_from has returned the tree
TreeBuilt == pc \in {"create", "write", "format", "diverged"} \/ out_file

\* write_structs is through with the struct at position i of tree.structs
Handled(i) ==
    \/ section = "structs" /\ struct_ix > i
    \/ section \in {"enums", "globals", "end"}

\* the positions in the output of the wrappers written for that struct
WrappersOf(i) ==
    { k \in 1..Len(out) : out[k].sec = "structs" /\ out[k].kind /= "header" /\ out[k].decl = i }

Strategies == {"ref_counted", "opaque", "aggregate"}

\* C1 as stated: every struct declaration with named fields is in the IR, and
\* write_structs applies exactly one emission strategy to each of them
C1_AsStated ==
    TreeBuilt =>
        /\ [i \in 1..Len(tree.structs) |-> tree.structs[i].name]
             = [i \in 1..Len(NamedStructs(Items)) |-> NamedStructs(Items)[i].ident]
        /\ \A i \in 1..Len(tree.structs) :
              Handled(i) =>
                 /\ Cardinality(WrappersOf(i)) = 1
                 /\ \A k \in WrappersOf(i) : out[k].kind \in Strategies

\* C1, amended: every struct declaration with named fields is in the IR; to
\* each of them whose name maps to a host name write_structs applies exactly
\* one emission strategy, and for one whose name does not map it writes
\* nothing; a run that returns Ok has handled every struct
C1_OneStrategyPerHostStruct ==
    TreeBuilt =>
        /\ [i \in 1..Len(tree.structs) |-> tree.structs[i].name]
             = [i \in 1..Len(NamedStructs(Items)) |-> NamedStructs(Items)[i].ident]
        /\ \A i \in 1..Len(tree.structs) :
              /\ ~Handled(i) => WrappersOf(i) = {}
              /\ (Handled(i) /\ IsSome(make_rust_type_name(tree.structs[i].name))) =>
                    /\ Cardinality(WrappersOf(i)) = 1
                    /\ \A k \in WrappersOf(i) : out[k].kind \in Strategies
              /\ (Handled(i) /\ ~IsSome(make_rust_type_name(tree.structs[i].name))) =>
                    WrappersOf(i) = {}
        /\ result = Ok => \A i \in 1..Len(tree.structs) : Handled(i)

\* a finished run over a ref-counted struct, a sentinel struct and a struct
\* without a host name
C1_Witness ==
    /\ result = Ok
    /\ Len(tree.structs) = 3
    /\ \E i \in 1..3 : \E k \in WrappersOf(i) : out[k].kind = "ref_counted"
    /\ \E i \in 1..3 : \E k \in WrappersOf(i) : out[k].kind = "opaque"
    /\ \E i \in 1..3 : tree.structs[i].rust_name = None /\ WrappersOf(i) = {}

\* the identifiers of the fields of a declaration that are not among its
\* data fields: its virtual-method slots, in declaration order
RECURSIVE SlotIdents(_, _)
SlotIdents(item_fields, data_names) ==
    IF item_fields = <<>> THEN <<>>
    ELSE (IF Unwrap(Head(item_fields).ident) \in data_names
          THEN <<>> ELSE <<Unwrap(Head(item_fields).ident)>>)
         \o SlotIdents(Tail(item_fields), data_names)

\* the struct at position i has the data fields ["base"] and is rooted at
\* the marker type without being the marker
IsRefCountedShape(i) ==
    LET s == tree.structs[i] IN
    /\ IsSome(s.rust_name)
    /\ FieldNames(s.fields) = << <<"b","a","s","e">> >>
    /\ root(tree.base_types, Unwrap(s.rust_name)) = Some(T_BaseRefCounted)
    /\ Unwrap(s.rust_name) /= T_BaseRefCounted

\* C2: such a struct is written with the ref-counted strategy; it gets one
\* thunk per slot declared on it, in declaration order, and init_methods
\* installs into each slot the thunk of the same name
C2_ThunkPerSlot ==
    TreeBuilt =>
        \A i \in 1..Len(tree.structs) :
            (Handled(i) /\ IsRefCountedShape(i)) =>
                LET slots == SlotIdents(NamedStructs(Items)[i].fields, { <<"b","a","s","e">> }) IN
                /\ WrappersOf(i) /= {}
                /\ \A k \in WrappersOf(i) :
                      /\ out[k].kind = "ref_counted"
                      /\ Len(out[k].thunks) = Len(slots)
                      /\ Len(out[k].init_methods) = Len(slots)
                      /\ \A m \in 1..Len(slots) :
                            /\ out[k].thunks[m].name = slots[m]
                            /\ out[k].init_methods[m].slot = slots[m]
                            /\ out[k].init_methods[m].thunk = out[k].thunks[m].name

\* _cef_a_t, with base: cef_base_ref_counted_t and the one slot on_a, has
\* been written with exactly one thunk
C2_Witness ==
    \E i \in 1..Len(tree.structs) :
        /\ Handled(i)
        /\ IsRefCountedShape(i)
        /\ tree.structs[i].name = <<"_","c","e","f","_","a","_","t">>
        /\ \E k \in WrappersOf(i) :
              /\ Len(out[k].thunks) = 1
              /\ out[k].thunks[1].name = <<"o","n","_","a">>
              /\ out[k].init_methods = << [slot |-> <<"o","n","_","a">>, thunk |-> <<"o","n","_","a">>] >>

\* the host name reached from name by hops base links
RECURSIVE Ancestor(_, _, _)
Ancestor(bt, name, hops) ==
    IF hops = 0 THEN name ELSE Ancestor(bt, bt[name], hops - 1)

\* the number of base links from name to a name without a recorded parent
RECURSIVE ChainLength(_, _)
ChainLength(bt, name) ==
    IF name \in DOMAIN bt THEN 1 + ChainLength(bt, bt[name]) ELSE 0

\* C3: in the into_raw of a ref-counted struct S with the chain
\* Root <- A_n <- .. <- A_1 <- S the calls of init_methods are those of
\* A_n, .., A_1 in this order and then that of S; the call for A_k is made on
\* object followed by k accesses of base, the call for S on object itself
C3_InitOrder ==
    \A p \in 1..Len(out) :
        (out[p].sec = "structs" /\ out[p].kind = "ref_counted") =>
            LET bt == tree.base_types
                s == tree.structs[out[p].decl]
                n == ChainLength(bt, Unwrap(s.rust_name)) - 1
                calls == out[p].into_raw
            IN /\ Len(calls) = n + 1
               /\ calls[n + 1] = [module |-> <<"i","m","p","l">> \o s.name, object |-> <<>>]
               /\ \A k \in 1..n :
                     LET call == calls[n + 1 - k] IN
                     /\ \E j \in 1..Len(tree.structs) :
                           /\ tree.structs[j].rust_name
                                = Some(Ancestor(bt, Unwrap(s.rust_name), k))
                           /\ call.module = <<"i","m","p","l">> \o tree.structs[j].name
                     /\ Len(call.object) = k
                     /\ \A h \in 1..k : call.object[h] = <<"b","a","s","e">>

\* _cef_c_t <- _cef_b_t <- _cef_a_t <- the marker: the into_raw of _cef_c_t
\* calls the init_methods of _cef_a_t on object.base.base, then that of
\* _cef_b_t on object.base, then its own on object
C3_Witness ==
    \E p \in 1..Len(out) :
        /\ out[p].sec = "structs"
        /\ out[p].kind = "ref_counted"
        /\ out[p].name = <<"_","c","e","f","_","c","_","t">>
        /\ out[p].into_raw
             = << [module |-> <<"i","m","p","l","_","c","e","f","_","a","_","t">>, object |-> << <<"b","a","s","e">>, <<"b","a","s","e">> >>],
                  [module |-> <<"i","m","p","l","_","c","e","f","_","b","_","t">>, object |-> << <<"b","a","s","e">> >>],
                  [module |-> <<"i","m","p","l","_","c","e","f","_","c","_","t">>, object |-> <<>>] >>

\* the struct at position i has data fields only, not the sentinel alone
\* and not base alone below the marker
IsPlainDataShape(i) ==
    LET s == tree.structs[i] IN
    /\ s.methods = <<>>
    /\ s.fields /= <<>>
    /\ Len(s.fields) = Len(NamedStructs(Items)[i].fields)
    /\ FieldNames(s.fields) /= << <<"_","u","n","u","s","e","d">> >>
    /\ ~(/\ FieldNames(s.fields) = << <<"b","a","s","e">> >>
         /\ IsSome(s.rust_name)
         /\ root(tree.base_types, Unwrap(s.rust_name)) = Some(T_BaseRefCounted))

\* the wrapper at position k of the output is a plain aggregate that
\* declares and converts, both ways, the fields of the declaration item in
\* their order
IsAggregateOf(k, item) ==
    LET idents == [f \in 1..Len(item.fields) |-> Unwrap(item.fields[f].ident)] IN
    /\ out[k].kind = "aggregate"
    /\ Len(out[k].fields) = Len(idents)
    /\ [f \in 1..Len(idents) |-> out[k].from_fields[f].foreign] = idents
    /\ [f \in 1..Len(idents) |-> out[k].into_fields[f].foreign] = idents
    /\ \A f \in 1..Len(idents) :
          /\ out[k].from_fields[f].host = out[k].fields[f].rust_name
          /\ out[k].into_fields[f].host = out[k].fields[f].rust_name
          /\ out[k].fields[f].rust_name = make_snake_case_value_name(idents[f])

\* C5 as stated: every such struct is written as a plain aggregate with one
\* field per declared data field, in declaration order
C5_AsStated ==
    TreeBuilt =>
        \A i \in 1..Len(tree.structs) :
            (Handled(i) /\ IsPlainDataShape(i)) =>
                /\ Cardinality(WrappersOf(i)) = 1
                /\ \A k \in WrappersOf(i) : IsAggregateOf(k, NamedStructs(Items)[i])

\* C5, amended: every such struct whose name maps to a host name is written
\* as a plain aggregate with one field per declared data field, in
\* declaration order; one whose name does not map is not written
C5_PlainAggregate ==
    TreeBuilt =>
        \A i \in 1..Len(tree.structs) :
            (Handled(i) /\ IsPlainDataShape(i)) =>
                IF IsSome(make_rust_type_name(NamedStructs(Items)[i].ident))
                THEN /\ Cardinality(WrappersOf(i)) = 1
                     /\ \A k \in WrappersOf(i) : IsAggregateOf(k, NamedStructs(Items)[i])
                ELSE WrappersOf(i) = {}

\* _cef_p_t, with the data fields x and yVal, has been written with the two
\* fields x and y_val
C5_Witness ==
    \E i \in 1..Len(tree.structs) :
        /\ Handled(i)
        /\ IsPlainDataShape(i)
        /\ tree.structs[i].name = <<"_","c","e","f","_","p","_","t">>
        /\ \E k \in WrappersOf(i) :
              /\ out[k].kind = "aggregate"
              /\ [f \in 1..2 |-> out[k].fields[f].rust_name] = << <<"x">>, <<"y","_","v","a","l">> >>
              /\ [f \in 1..2 |-> out[k].into_fields[f].foreign] = << <<"x">>, <<"y","V","a","l">> >>

\* C6: a file that is not Rust syntax makes generate_bindings return the
\* parse error with no output file created and nothing written; whenever the
\* output file exists or something is written, the file parsed and
\* ParseTree::try_from went through all its items and built the base types
C6_NoOutputOnParseFailure ==
    /\ (input.readable /\ ~input.syntax_ok /\ pc = "done") =>
          (result = Err("Parse") /\ ~out_file /\ out = <<>>)
    /\ result = Err("Parse") => (~out_file /\ out = <<>>)
    /\ (out_file \/ out /= <<>>) =>
          /\ input.readable
          /\ input.syntax_ok
          /\ item_ix = Len(Items)
          /\ Len(tree.structs) = Len(NamedStructs(Items))
          /\ tree.base_types = BaseTypes_new(tree.structs)

C6_Witness ==
    /\ input.readable
    /\ ~input.syntax_ok
    /\ pc = "done"
    /\ result = Err("Parse")
    /\ ~out_file

SectionRank(sec) ==
    CASE sec = "prelude" -> 1
      [] sec = "aliases" -> 2
      [] sec = "structs" -> 3
      [] sec = "enums" -> 4
      [] sec = "globals" -> 5

\* the pieces of a section in the output
SectionOf(sec) == SelectSeq(out, LAMBDA piece : piece.sec = sec)

RECURSIVE AllStructWrappers(_, _)
AllStructWrappers(t, i) ==
    IF i > Len(t.structs) THEN <<>>
    ELSE write_struct(t, i) \o AllStructWrappers(t, i + 1)

\* everything the section writes for the tree
WholeSection(sec) ==
    CASE sec = "prelude" -> write_prelude
      [] sec = "aliases" -> write_aliases(tree)
      [] sec = "structs" -> << [sec |-> "structs", kind |-> "header"] >>
                            \o AllStructWrappers(tree, 1)
      [] sec = "enums" -> write_enums(tree)
      [] sec = "globals" -> write_globals(tree)

\* C8: the output is the prelude, the type aliases, the struct wrappers, the
\* enum wrappers and the global function wrappers in this order, whatever
\* the order of the items of the input; where a piece of a section is
\* written, the sections before it are written whole; the output of a run
\* that returns Ok has all five
C8_SectionOrder ==
    /\ \A k \in 1..Len(out) : \A l \in 1..Len(out) :
          k < l => SectionRank(out[k].sec) <= SectionRank(out[l].sec)
    /\ \A k \in 1..Len(out) :
          \A sec \in {"prelude", "aliases", "structs", "enums", "globals"} :
              SectionRank(sec) < SectionRank(out[k].sec) =>
                  SectionOf(sec) = WholeSection(sec)
    /\ result = Ok =>
          \A sec \in {"prelude", "aliases", "structs", "enums", "globals"} :
              SectionOf(sec) = WholeSection(sec)

\* a foreign block followed by a struct: the wrapper of the struct is
\* written before the wrapper of the function
C8_Witness ==
    /\ result = Ok
    /\ Len(Items) = 2
    /\ Items[1].kind = "ForeignMod"
    /\ Items[2].kind = "Struct"
    /\ \E k \in 1..Len(out) : \E l \in 1..Len(out) :
          /\ k < l
          /\ out[k].sec = "structs" /\ out[k].kind = "aggregate"
          /\ out[l].sec = "globals" /\ out[l].kind = "global"

---------------------------------------------------------------------------
(* Claims about the global function wrappers (checked under SpecGlobals).  *)

\* name is cef_ followed by a remainder that is not empty
HasCefPrefix(name) ==
    /\ Len(name) > 4
    /\ name[1] = "c" /\ name[2] = "e" /\ name[3] = "f" /\ name[4] = "_"

\* C11: the function of the block is recorded as (remainder, Some(name)) when
\* its name is cef_ + remainder and as (name, None) otherwise; its wrapper
\* has the first component as its name and calls the foreign function by
\* the name the block declares
C11_GlobalAlias ==
    /\ mapped /= None =>
          /\ Len(tree.globals) = 1
          /\ IF HasCefPrefix(fname)
             THEN /\ tree.globals[1].name = SubSeq(fname, 5, Len(fname))
                  /\ tree.globals[1].original_name = Some(fname)
             ELSE /\ tree.globals[1].name = fname
                  /\ tree.globals[1].original_name = None
    /\ mapped = Some("written") =>
          /\ Len(out) = 2
          /\ out[2].kind = "global"
          /\ out[2].sig.name = tree.globals[1].name
          /\ out[2].original_name = fname

\* cef_do_something is written as the wrapper do_something that calls
\* cef_do_something
C11_Witness ==
    /\ mapped = Some("written")
    /\ fname = N_cef_do_something
    /\ tree.globals[1].original_name = Some(N_cef_do_something)
    /\ out[2].sig.name = <<"d","o","_","s","o","m","e","t","h","i","n","g">>
    /\ out[2].original_name = N_cef_do_something

\* other_fn is written as the wrapper other_fn that calls other_fn
C11_WitnessUnmatched ==
    /\ mapped = Some("written")
    /\ fname = N_other_fn
    /\ tree.globals[1].original_name = None
    /\ out[2].sig.name = N_other_fn
    /\ out[2].original_name = N_other_fn

---------------------------------------------------------------------------
(* Claims about the repeated name mapping (checked under SpecRemap).       *)

\* C12: the type-name mapping with the fallback to the raw name, applied to
\* a name that is already its result, gives that name again; so does the
\* value-name mapping
C12_Idempotent ==
    \A k \in 2..Len(mapped) :
        /\ mapped[k].ty = mapped[k - 1].ty
        /\ mapped[k].val = mapped[k - 1].val

\* cef_fooBar_t: both mappings change the name the first time, to Foobar
\* and to cef_foo_bar_t, and leave it the second time
C12_Witness ==
    /\ fname = N_cef_fooBar_t
    /\ Len(mapped) = 2
    /\ mapped[1].ty = <<"F","o","o","b","a","r">>
    /\ mapped[1].val = <<"c","e","f","_","f","o","o","_","b","a","r","_","t">>
    /\ mapped[2] = mapped[1]

---------------------------------------------------------------------------
(* Claims about the formatter and about termination (checked under Spec).  *)

\* everything Display for ParseTree writes for the tree
WholeOutput ==
    WholeSection("prelude") \o WholeSection("aliases") \o WholeSection("structs")
    \o WholeSection("enums") \o WholeSection("globals")

\* C13 as stated: rustfmt is run only when the whole output is in the file;
\* whatever becomes of it the content stays as written, and a rustfmt that
\* exits unsuccessfully or cannot be run leaves the result of the run Ok
C13_AsStated ==
    fmt_status /= "not_run" =>
        /\ out_file
        /\ out = WholeOutput
        /\ fmt_status \in {"spawn_failed", "exit_failure"} => result = Ok

\* C14 as stated: BaseTypes::root returns for every name of every mapping
\* BaseTypes::new builds from the structs of a file, and write_structs is
\* never held up by it
C14_AsStated ==
    /\ pc /= "diverged"
    /\ TreeBuilt => \A name \in DOMAIN tree.base_types :
                       IsSome(root(tree.base_types, name))

---------------------------------------------------------------------------
(* Claims about the thunk of a slot (checked under SpecThunks).            *)

T_self_ == <<"s","e","l","f","_">>

\* the parameters of the slot other than the receiver self_
SlotNonReceivers ==
    SelectSeq(input.slot_inputs, LAMBDA p : p.name /= Some(T_self_))

\* the thunk forwards the parameters of the slot other than the receiver,
\* all of them and in their order, and these are the parameters other than
\* &self in the signature of the trait method
ThunkAgreesWithTrait ==
    /\ Len(out) = 1
    /\ out[1].kind = "ref_counted"
    /\ Len(out[1].thunks) = 1
    /\ LET others == SlotNonReceivers
           forwarded == out[1].thunks[1].forward_args
           declared == SelectSeq(out[1].trait_methods[1].sig.args,
                                 LAMBDA a : a /= <<"&","s","e","l","f">>)
       IN /\ Len(forwarded) = Len(others)
          /\ Len(declared) = Len(others)
          /\ \A j \in 1..Len(others) :
                /\ IsSome(others[j].name)
                /\ forwarded[j]
                     = make_snake_case_value_name(Unwrap(others[j].name)) \o <<".","i","n","t","o","(",")">>
                /\ declared[j]
                     = make_snake_case_value_name(Unwrap(others[j].name))
                       \o <<":"," ">> \o type_to_string(others[j].ty)

\* C15 as stated: thunk and trait method agree in this way whatever the
\* parameter list of the slot, also when its first named parameter is not
\* self_, when self_ is not the first, and when a parameter has no name
C15_AsStated ==
    mapped = Some("written") => ThunkAgreesWithTrait

\* the parameter list follows the convention: self_ first and once, every
\* other parameter named
ReceiverFirst ==
    /\ input.slot_inputs /= <<>>
    /\ Head(input.slot_inputs) = P_self
    /\ \A j \in 2..Len(input.slot_inputs) :
          input.slot_inputs[j] \in {P_x, P_yVal}

\* what holds of it: thunk and trait method agree for a slot that follows
\* the convention
C15_ReceiverFirst ==
    (mapped = Some("written") /\ ReceiverFirst) => ThunkAgreesWithTrait

---------------------------------------------------------------------------
(* Claims about the slots into_raw initializes (checked under Spec).       *)

\* the slots the struct at position j of tree.structs declares
DeclaredSlots(j) ==
    [m \in 1..Len(tree.structs[j].methods) |-> tree.structs[j].methods[m].name]

\* the slots that the init_methods of the module written for that struct
\* assigns; a struct that is not written as ref-counted has no such module
InitSlots(j) ==
    LET pieces == IF root_returns(tree, j) THEN write_struct(tree, j) ELSE <<>> IN
    IF pieces /= <<>> /\ pieces[1].kind = "ref_counted"
    THEN Some([m \in 1..Len(pieces[1].init_methods) |-> pieces[1].init_methods[m].slot])
    ELSE None

\* the calls of into_raw that are made on the sub-record depth base accesses
\* below the record
CallsAtDepth(piece, depth) ==
    { c \in 1..Len(piece.into_raw) : Len(piece.into_raw[c].object) = depth }

\* the sub-record at that depth is that of the struct at position j, and
\* into_raw initializes its slots by one call of the init_methods of that
\* struct, which assigns the slots the struct declares
InitializedByOwner(piece, depth, j) ==
    /\ Cardinality(CallsAtDepth(piece, depth)) = 1
    /\ \A c \in CallsAtDepth(piece, depth) :
          /\ piece.into_raw[c].module = <<"i","m","p","l">> \o tree.structs[j].name
          /\ piece.into_raw[c].object = [h \in 1..depth |-> <<"b","a","s","e">>]
    /\ InitSlots(j) = Some(DeclaredSlots(j))

\* the positions of the structs with that host name
StructsNamed(rust_name) ==
    { j \in 1..Len(tree.structs) : tree.structs[j].rust_name = Some(rust_name) }

\* C16 as stated: into_raw of a ref-counted struct S calls init_methods once
\* for every ancestor of the resolved chain of S, the root of the chain
\* included where the file declares it, the most distant first, and once for
\* S, so that every slot of S and of its ancestors is assigned by the
\* init_methods of the struct that declares it and by no other
C16_AsStated ==
    \A p \in 1..Len(out) :
        (out[p].sec = "structs" /\ out[p].kind = "ref_counted") =>
            LET bt == tree.base_types
                s == tree.structs[out[p].decl]
                n == ChainLength(bt, Unwrap(s.rust_name))
            IN /\ InitializedByOwner(out[p], 0, out[p].decl)
               /\ \A k \in 1..n :
                     \A j \in StructsNamed(Ancestor(bt, Unwrap(s.rust_name), k)) :
                         InitializedByOwner(out[p], k, j)
               /\ \A c \in 1..Len(out[p].into_raw) : \A d \in 1..Len(out[p].into_raw) :
                     c < d => Len(out[p].into_raw[c].object) > Len(out[p].into_raw[d].object)

\* C16, amended: into_raw of a ref-counted struct S calls init_methods once
\* for every ancestor of the resolved chain of S below the root marker, the
\* most distant first, and once for S, so that every slot of S and of these
\* ancestors is assigned by the init_methods of the struct that declares it
\* and by no other; for the root marker it makes no call, and the slots the
\* marker declares are assigned by none of the init_methods
C16_InitByDeclaringType ==
    \A p \in 1..Len(out) :
        (out[p].sec = "structs" /\ out[p].kind = "ref_counted") =>
            LET bt == tree.base_types
                s == tree.structs[out[p].decl]
                n == ChainLength(bt, Unwrap(s.rust_name))
            IN /\ Ancestor(bt, Unwrap(s.rust_name), n) = T_BaseRefCounted
               /\ InitializedByOwner(out[p], 0, out[p].decl)
               /\ \A k \in 1..(n - 1) :
                     /\ StructsNamed(Ancestor(bt, Unwrap(s.rust_name), k)) /= {}
                     /\ \A j \in StructsNamed(Ancestor(bt, Unwrap(s.rust_name), k)) :
                           InitializedByOwner(out[p], k, j)
               /\ \A c \in 1..Len(out[p].into_raw) :
                     Len(out[p].into_raw[c].object) < n
               /\ \A j \in StructsNamed(T_BaseRefCounted) : InitSlots(j) = None
               /\ \A c \in 1..Len(out[p].into_raw) : \A d \in 1..Len(out[p].into_raw) :
                     c < d => Len(out[p].into_raw[c].object) > Len(out[p].into_raw[d].object)

\* the file declares the marker with its slot add_ref, _cef_a_t below it and
\* _cef_b_t below that: the into_raw of _cef_b_t calls the init_methods of
\* _cef_a_t on object.base and its own on object, and none for the marker
C16_Witness ==
    /\ result = Ok
    /\ StructsNamed(T_BaseRefCounted) /= {}
    /\ \A j \in StructsNamed(T_BaseRefCounted) : DeclaredSlots(j) = << <<"a","d","d","_","r","e","f">> >>
    /\ \E p \in 1..Len(out) :
          /\ out[p].sec = "structs"
          /\ out[p].kind = "ref_counted"
          /\ out[p].name = <<"_","c","e","f","_","b","_","t">>
          /\ out[p].into_raw
               = << [module |-> <<"i","m","p","l","_","c","e","f","_","a","_","t">>, object |-> << <<"b","a","s","e">> >>],
                    [module |-> <<"i","m","p","l","_","c","e","f","_","b","_","t">>, object |-> <<>>] >>
          /\ InitSlots(out[p].decl) = Some(<< <<"o","n","_","b">>, <<"g","e","t","_","b">> >>)

=============================================================================
